---- MODULE Spec2Model ----
(***************************************************************************)
(* Model of vibebar's tray synchronisation and activation engine           *)
(* (src/src/main.rs): the tray_subscription state machine, the activation  *)
(* channel ACTIVATE_TX, the UI reducer update() and the icon resolver.     *)
(*                                                                         *)
(* Option<T> is modelled as a sequence of length at most one:              *)
(* None is <<>> and Some(x) is <<x>>.                                      *)
(***************************************************************************)
EXTENDS Integers, Sequences, FiniteSets, TLC

\* ---------------------------------------------------------------- bounds
MaxQueue == 1    \* broadcast events buffered for the engine's receiver, and
                 \* stream messages produced but not yet handled by update()
MaxReq == 1      \* activation requests sent in one behaviour of Spec
MaxBurst == 2    \* activation requests sent in one behaviour of SpecReq
MaxSvc == 1      \* changes the tray service makes in one behaviour
MaxPixmaps == 2  \* entries of a pixmap list handed to pixmap_to_handle
MaxBytes == 9    \* bytes of a pixmap's pixel buffer
MaxLen == 2      \* characters of a bus name and of a registered item's address
MaxItems == 2    \* entries of the watcher's RegisteredStatusNotifierItems list
MaxPopups == 2   \* popups opened in one behaviour

\* ------------------------------------------------------------ value sets
Addr == {"a", "b"}

None == <<>>
Some(x) == <<x>>
IsSome(o) == Len(o) = 1
Unwrap(o) == o[1]

\* IconData values the tray service hands out (main.rs:28-32)
PixA == [width |-> 1, height |-> 1, pixels |-> <<255, 1, 2, 3>>]
PixB == [width |-> 2, height |-> 1, pixels |-> <<9, 8, 7, 6, 5, 4, 3, 2, 1>>]
IconPix == [pixmap |-> Some(<<PixA, PixB>>), icon_name |-> None, icon_theme_path |-> None]
IconNamed == [pixmap |-> None, icon_name |-> Some("foo"), icon_theme_path |-> Some("/t")]
IconEmpty == [pixmap |-> Some(<<>>), icon_name |-> Some(""), icon_theme_path |-> None]
IconDatas == {IconPix, IconNamed, IconEmpty}

\* StatusNotifierItem fields the engine reads (main.rs:568-570, 676)
\* a is an application with an Activate method, b is one that only has a menu
ItemOf(address) ==
    IF address = "a" THEN [icon |-> IconPix, item_is_menu |-> FALSE]
    ELSE [icon |-> IconNamed, item_is_menu |-> TRUE]

\* TrayEvent (main.rs:35-40)
Tick == [type |-> "Tick", address |-> "", icon |-> IconEmpty]
Add(address, icon) == [type |-> "Add", address |-> address, icon |-> icon]
Update(address, icon) == [type |-> "Update", address |-> address, icon |-> icon]
Remove(address) == [type |-> "Remove", address |-> address, icon |-> IconEmpty]
TrayEvents ==
    {Tick} \cup {Add(a, i) : a \in Addr, i \in IconDatas}
           \cup {Update(a, i) : a \in Addr, i \in IconDatas}
           \cup {Remove(a) : a \in Addr}

VARIABLES
    items,        \* live item map of the tray service / client library: address -> item
    state,        \* TrayState of the unfold (main.rs:705-719)
    rx,           \* broadcast events queued for the engine's receiver
    activate_rx,  \* which mpsc receiver the engine holds: "none", "first", "orphan"
    ACTIVATE_TX,  \* OnceLock: TRUE once a sender has been registered
    chan,         \* requests queued in the channel ACTIVATE_TX sends into
    stream_done,  \* the unfold closure returned None
    out,          \* stream messages not yet handled by update()
    tray_items,   \* State.tray_items (main.rs:97)
    fs,           \* icon files on disk: path -> "image" or "garbage"
    theme_hit,    \* result of freedesktop_icons::lookup for each name
    last,         \* history: the last engine step
    replay,       \* history: Add events emitted since the last successful connect
    nreq,         \* counts the requests sent into the channel; a request's id is its rank
    serviced,     \* history: id of the request the engine dequeued last, 0 when none
    live,         \* history: addresses whose latest Add handled by update() has no later Remove
    epoch,        \* history: "none" before the first successful connect, "first" from
                  \* then until the second one, "later" afterwards
    nsvc,         \* counts the changes the tray service has made
    clicked,      \* history: the last click update() handled, None when there was none
    arg,          \* the argument of the function a resolver or address behaviour applies
    ret,          \* what that function returned, None before the call
    ui,           \* the other fields of State (main.rs:98-102) and the window id counter
    inflight      \* the request whose sni_* calls the engine is awaiting, None when idle

vars == <<items, state, rx, activate_rx, ACTIVATE_TX, chan, stream_done, out,
          tray_items, fs, theme_hit, last, replay, nreq, serviced,
          live, epoch, nsvc, clicked, arg, ret, ui, inflight>>

\* ------------------------------------------------------- icon resolver
\* IconHandle (main.rs:86-89)
Raster(w, h, rgba) == [kind |-> "Raster", width |-> w, height |-> h, rgba |-> rgba, path |-> None]
Svg(p) == [kind |-> "Svg", width |-> 0, height |-> 0, rgba |-> <<>>, path |-> Some(p)]

\* a path is its stem and its extension ("" when it has none)
Path(stem, ext) == [stem |-> stem, ext |-> ext]

\* Iterator::max_by_key: the index of the maximum, the last one when several are equal
MaxByKeyIndex(pixmaps) ==
    CHOOSE i \in 1..Len(pixmaps) :
        /\ \A j \in 1..Len(pixmaps) :
               pixmaps[j].width * pixmaps[j].height <= pixmaps[i].width * pixmaps[i].height
        /\ \A j \in (i + 1)..Len(pixmaps) :
               pixmaps[j].width * pixmaps[j].height < pixmaps[i].width * pixmaps[i].height

\* mutant: the bytes of a short tail are kept as they are
RECURSIVE ArgbToRgba_KeepTail(_)
ArgbToRgba_KeepTail(pixels) ==
    IF Len(pixels) < 4 THEN pixels
    ELSE <<pixels[2], pixels[3], pixels[4], pixels[1]>>
             \o ArgbToRgba_KeepTail(SubSeq(pixels, 5, Len(pixels)))

\* the chunks(4) loop: complete pixels [A,R,G,B] become [R,G,B,A], a short tail is skipped
RECURSIVE ArgbToRgba(_)
ArgbToRgba(pixels) ==
    IF Len(pixels) < 4 THEN <<>>
    ELSE <<pixels[2], pixels[3], pixels[4], pixels[1]>>
             \o ArgbToRgba(SubSeq(pixels, 5, Len(pixels)))

pixmap_to_handle(pixmaps) ==
    IF Len(pixmaps) = 0 THEN None
    ELSE LET pixmap == pixmaps[MaxByKeyIndex(pixmaps)]
         IN  Some(Raster(pixmap.width, pixmap.height, ArgbToRgba(pixmap.pixels)))

\* the image decoded from a readable png file
DecodedPng == [width |-> 1, height |-> 1, rgba |-> <<0, 0, 0, 255>>]

load_png(path, files) ==
    IF path \notin DOMAIN files THEN None
    ELSE IF files[path] # "image" THEN None
    ELSE Some(Raster(DecodedPng.width, DecodedPng.height, DecodedPng.rgba))

ToLowercase(ext) ==
    IF ext = "SVG" THEN "svg" ELSE IF ext = "PNG" THEN "png" ELSE ext

load_icon_file(path, files) ==
    IF path.ext = "" THEN None
    ELSE LET ext == ToLowercase(path.ext)
         IN  IF ext = "svg" THEN Some(Svg(path))
             ELSE IF ext = "png" THEN load_png(path, files)
             ELSE None

\* mutant: the png next to the theme path is probed before the svg
Candidates_PngFirst(tp, name) ==
    << Path(tp \o "/" \o name, "png"),
       Path(tp \o "/" \o name, "svg"),
       Path(tp \o "/hicolor/scalable/apps/" \o name, "svg"),
       Path(tp \o "/hicolor/256x256/apps/" \o name, "png"),
       Path(tp \o "/hicolor/128x128/apps/" \o name, "png"),
       Path(tp \o "/hicolor/64x64/apps/" \o name, "png") >>

Candidates(tp, name) ==
    << Path(tp \o "/" \o name, "svg"),
       Path(tp \o "/" \o name, "png"),
       Path(tp \o "/hicolor/scalable/apps/" \o name, "svg"),
       Path(tp \o "/hicolor/256x256/apps/" \o name, "png"),
       Path(tp \o "/hicolor/128x128/apps/" \o name, "png"),
       Path(tp \o "/hicolor/64x64/apps/" \o name, "png") >>

\* the first candidate that exists, as the `for c in candidates` loop finds it
FirstExisting(cands, files) ==
    LET hits == {i \in 1..Len(cands) : cands[i] \in DOMAIN files}
    IN  IF hits = {} THEN None
        ELSE Some(cands[CHOOSE i \in hits : \A j \in hits : i <= j])

lookup_icon(name, theme_path, files, hit) ==
    LET path == IF IsSome(hit[name]) THEN hit[name]
                ELSE IF IsSome(theme_path)
                     THEN FirstExisting(Candidates(Unwrap(theme_path), name), files)
                     ELSE None
    IN  IF IsSome(path) THEN load_icon_file(Unwrap(path), files) ELSE None

\* mutant: the icon name is tried before the pixmap list
resolve_icon_NameFirst(icon, files, hit) ==
    IF IsSome(icon.icon_name) /\ Unwrap(icon.icon_name) # ""
    THEN lookup_icon(Unwrap(icon.icon_name), icon.icon_theme_path, files, hit)
    ELSE IF IsSome(icon.pixmap) /\ Len(Unwrap(icon.pixmap)) # 0
    THEN pixmap_to_handle(Unwrap(icon.pixmap))
    ELSE None

resolve_icon(icon, files, hit) ==
    IF IsSome(icon.pixmap) /\ Len(Unwrap(icon.pixmap)) # 0
    THEN pixmap_to_handle(Unwrap(icon.pixmap))
    ELSE IF IsSome(icon.icon_name) /\ Unwrap(icon.icon_name) # ""
    THEN lookup_icon(Unwrap(icon.icon_name), icon.icon_theme_path, files, hit)
    ELSE None

\* the files and theme database the behaviours start from
IconNames == {"foo"}
InitFs == (Path("/t/foo", "png") :> "image")
InitThemeHit == [n \in IconNames |-> None]

\* ---------------------------------------------------------- UI reducer
\* Message (main.rs:51-61), the variants update() acts on
MsgTray(event) == [kind |-> "Tray", event |-> event, address |-> "", click_type |-> "", is_hovered |-> FALSE]
MsgClicked(address, click_type) ==
    [kind |-> "TrayIconClicked", event |-> Tick, address |-> address, click_type |-> click_type, is_hovered |-> FALSE]
MsgHover(address, is_hovered) ==
    [kind |-> "TrayIconHover", event |-> Tick, address |-> address, click_type |-> "", is_hovered |-> is_hovered]
NoMsg == [kind |-> "none", event |-> Tick, address |-> "", click_type |-> "", is_hovered |-> FALSE]

TrayItem(icon, hovered) == [icon |-> icon, hovered |-> hovered]
EmptyMap == [a \in {} |-> TrayItem(None, FALSE)]

\* HashMap::insert and HashMap::remove
Insert(m, k, v) == [a \in DOMAIN m \cup {k} |-> IF a = k THEN v ELSE m[a]]
RemoveKey(m, k) == [a \in DOMAIN m \ {k} |-> m[a]]

\* mutant: every Add or Update starts the entry with hovered = false
UpdateTray_ResetHover(ti, event, files, hit) ==
    IF event.type \in {"Add", "Update"}
    THEN Insert(ti, event.address, TrayItem(resolve_icon(event.icon, files, hit), FALSE))
    ELSE IF event.type = "Remove"
    THEN RemoveKey(ti, event.address)
    ELSE ti

\* update(), the Message::Tray arm
UpdateTray(ti, event, files, hit) ==
    IF event.type \in {"Add", "Update"}
    THEN LET icon_handle == resolve_icon(event.icon, files, hit)
             hovered == IF event.address \in DOMAIN ti THEN ti[event.address].hovered ELSE FALSE
         IN  Insert(ti, event.address, TrayItem(icon_handle, hovered))
    ELSE IF event.type = "Remove"
    THEN RemoveKey(ti, event.address)
    ELSE ti

\* mutant: a hover message for an address not in the map makes an entry
UpdateHover_Create(ti, address, is_hovered) ==
    IF address \in DOMAIN ti
    THEN [ti EXCEPT ![address].hovered = is_hovered]
    ELSE Insert(ti, address, TrayItem(None, is_hovered))

\* update(), the Message::TrayIconHover arm
UpdateHover(ti, address, is_hovered) ==
    IF address \in DOMAIN ti
    THEN [ti EXCEPT ![address].hovered = is_hovered]
    ELSE ti

\* ---------------------------------------------------------- UI state
\* an f32 coordinate is counted in half pixels, so 3 stands for 1.5
\* `as i32` and `as u32` of a non-negative f32 far inside the range: the
\* fraction is cut off
AsWhole(halves) == halves \div 2

\* the bar is the first window the daemon opens
BarWindow == 1
DefaultBarWidth == 1920

\* init(): State without tray_items; unique is the last id window::Id::unique
\* has handed out
InitUi ==
    [mouse_position |-> <<0, 0>>, main_bar_id |-> None, bar_width |-> DefaultBarWidth,
     active_popup |-> None, popup_for_address |-> None, unique |-> BarWindow]

\* Message (main.rs:51-61), the variants about windows and the pointer
MsgClosePopup == [kind |-> "ClosePopup"]
MsgWindowResized(id, width) == [kind |-> "WindowResized", id |-> id, width |-> width]
MsgMouseMoved(point) == [kind |-> "MouseMoved", point |-> point]
MsgOpenPopup(parent, popup, size, position) ==
    [kind |-> "OpenPopup", parent |-> parent, popup |-> popup, size |-> size,
     position |-> position]
MsgCloseWindow(id) == [kind |-> "CloseWindow", id |-> id]

\* the popup's size and place
MenuWidth == 200
MenuHeight == 80
Margin == 4
PopupY == 30 + 6

\* i32::max and i32::clamp (lo <= hi wherever it is called)
Max(a, b) == IF a >= b THEN a ELSE b
Clamp(v, lo, hi) == IF v < lo THEN lo ELSE IF v > hi THEN hi ELSE v

\* update(), the right click arm: the State it leaves and the Task it returns,
\* a Task being the messages passed to Task::batch in their order
OnRightClick(u, address) ==
    IF u.main_bar_id = None
    THEN [ui |-> u, task |-> <<>>]
    ELSE LET parent == Unwrap(u.main_bar_id)
             close_task == IF IsSome(u.active_popup)
                           THEN <<MsgCloseWindow(Unwrap(u.active_popup))>>
                           ELSE <<>>
             popup == u.unique + 1
             bar_w == u.bar_width
             mouse_x == u.mouse_position[1]
             prefer_center == AsWhole(mouse_x) - (MenuWidth \div 2)
             min_x == Margin
             max_x == bar_w - MenuWidth - Margin
             x == Clamp(prefer_center, min_x, Max(max_x, min_x))
             y == PopupY
             open_task == <<MsgOpenPopup(parent, popup, <<MenuWidth, MenuHeight>>, <<x, y>>)>>
         IN  [ui |-> [u EXCEPT !.active_popup = Some(popup),
                               !.popup_for_address = Some(address),
                               !.unique = popup],
              task |-> close_task \o open_task]

\* mutant: the popup's address is kept when the popup is closed
OnClosePopup_KeepAddress(u) ==
    IF IsSome(u.active_popup)
    THEN [ui |-> [u EXCEPT !.active_popup = None],
          task |-> <<MsgCloseWindow(Unwrap(u.active_popup))>>]
    ELSE [ui |-> u, task |-> <<>>]

\* update(), the Message::ClosePopup arm
OnClosePopup(u) ==
    IF IsSome(u.active_popup)
    THEN [ui |-> [u EXCEPT !.active_popup = None, !.popup_for_address = None],
          task |-> <<MsgCloseWindow(Unwrap(u.active_popup))>>]
    ELSE [ui |-> u, task |-> <<>>]

\* update(), the Message::WindowResized arm (100.0 is 200 halves)
OnWindowResized(u, id, width) ==
    LET main_bar_id == IF u.main_bar_id = None /\ width > 200 THEN Some(id)
                       ELSE u.main_bar_id
    IN  [u EXCEPT !.main_bar_id = main_bar_id,
                  !.bar_width = IF main_bar_id = Some(id) THEN AsWhole(width) ELSE @]

\* update(), the Message::MouseMoved arm
OnMouseMoved(u, point) == [u EXCEPT !.mouse_position = point]

\* ------------------------------------------------------------ engine
\* TrayState (main.rs:705-719); the receivers it carries are the variables rx and activate_rx
Disconnected == [tag |-> "Disconnected", initial |-> <<>>, index |-> 0]
SendingInitial(initial, index) == [tag |-> "SendingInitial", initial |-> initial, index |-> index]
Connected == [tag |-> "Connected", initial |-> <<>>, index |-> 0]

\* what the unfold closure returns: Some((message, next state)) or None
StepSome(msg, next) == [some |-> TRUE, msg |-> msg, next |-> next]
StepNone == [some |-> FALSE, msg |-> Tick, next |-> Disconnected]

\* system_tray::client::Event and UpdateEvent
NoItem == [icon |-> IconEmpty, item_is_menu |-> FALSE]
NoUpdate == [kind |-> "none", icon_name |-> None, icon_pixmap |-> None]
UpdateIcon(icon_name, icon_pixmap) == [kind |-> "Icon", icon_name |-> icon_name, icon_pixmap |-> icon_pixmap]
UpdateOther == [kind |-> "Other", icon_name |-> None, icon_pixmap |-> None]
EvAdd(address, item) == [type |-> "Add", address |-> address, item |-> item, update |-> NoUpdate]
EvUpdate(address, update) == [type |-> "Update", address |-> address, item |-> NoItem, update |-> update]
EvRemove(address) == [type |-> "Remove", address |-> address, item |-> NoItem, update |-> NoUpdate]

\* the snapshot of client.items(): a HashMap iterates in an arbitrary order
Orderings(m) ==
    {[i \in 1..Cardinality(DOMAIN m) |-> [address |-> p[i], icon |-> m[p[i]].icon]] :
        p \in {q \in [1..Cardinality(DOMAIN m) -> DOMAIN m] :
                  \A a \in DOMAIN m : \E i \in 1..Cardinality(DOMAIN m) : q[i] = a}}

\* TrayState::Disconnected, Client::new() returned Ok
OnConnectOk(initial) == StepSome(Tick, SendingInitial(initial, 0))

\* mutant: a failed connect ends the stream instead of retrying
OnConnectErr_GiveUp == StepNone

\* TrayState::Disconnected, Client::new() returned Err
OnConnectErr == StepSome(Tick, Disconnected)

\* mutant: the loop bound is off by one, the last snapshot entry is never sent
OnSendingInitial_SkipLast(st) ==
    IF st.index + 1 < Len(st.initial)
    THEN StepSome(Add(st.initial[st.index + 1].address, st.initial[st.index + 1].icon),
                  SendingInitial(st.initial, st.index + 1))
    ELSE StepSome(Tick, Connected)

\* TrayState::SendingInitial
OnSendingInitial(st) ==
    IF st.index < Len(st.initial)
    THEN StepSome(Add(st.initial[st.index + 1].address, st.initial[st.index + 1].icon),
                  SendingInitial(st.initial, st.index + 1))
    ELSE StepSome(Tick, Connected)

\* mutant: an update that is not an icon change is forwarded as an Update
OnBroadcastOk_ForwardAll(event) ==
    IF event.type = "Add"
    THEN StepSome(Add(event.address, event.item.icon), Connected)
    ELSE IF event.type = "Update"
    THEN StepSome(Update(event.address,
                         [pixmap |-> event.update.icon_pixmap,
                          icon_name |-> event.update.icon_name,
                          icon_theme_path |-> None]),
                  Connected)
    ELSE StepSome(Remove(event.address), Connected)

\* TrayState::Connected, rx.recv() returned Ok(event)
OnBroadcastOk(event) ==
    IF event.type = "Add"
    THEN StepSome(Add(event.address, event.item.icon), Connected)
    ELSE IF event.type = "Update"
    THEN IF event.update.kind = "Icon"
         THEN StepSome(Update(event.address,
                              [pixmap |-> event.update.icon_pixmap,
                               icon_name |-> event.update.icon_name,
                               icon_theme_path |-> None]),
                       Connected)
         ELSE StepSome(Tick, Connected)
    ELSE StepSome(Remove(event.address), Connected)

\* mutant: a broadcast error is skipped and the engine stays Connected
OnBroadcastErr_StayConnected == StepSome(Tick, Connected)

\* mutant: a broadcast error ends the stream
OnBroadcastErr_EndStream == StepNone

\* TrayState::Connected, rx.recv() returned Err
OnBroadcastErr == StepSome(Tick, Disconnected)

\* ----------------------------------------------------------- activation
\* how one sni_* call ends: the address lookup fails, the connection or proxy
\* fails, the remote method call fails, or everything succeeds
SniOutcomes == {"LookupErr", "ConnErr", "CallErr", "Ok"}
SniCall(method, outcome) == [method |-> method, outcome |-> outcome]
sni_activate(outcome) == SniCall("Activate", outcome)
sni_context_menu(outcome) == SniCall("ContextMenu", outcome)
\* mutant: the middle click calls the Activate method
sni_secondary_activate_AsActivate(outcome) == SniCall("Activate", outcome)
sni_secondary_activate(outcome) == SniCall("SecondaryActivate", outcome)
IsErr(call) == call.outcome # "Ok"
\* the remote method was actually called on the item
Invoked(call) == call.outcome \in {"CallErr", "Ok"}

\* the item_is_menu read from the live item map
ItemIsMenu(m, address) ==
    IF address \in DOMAIN m THEN m[address].item_is_menu ELSE FALSE

\* mutant: the item_is_menu flag is not consulted
Activation_IgnoreMenu(click_type, item_is_menu, o1, o2) ==
    IF click_type = "Left"
    THEN IF IsErr(sni_activate(o1))
         THEN <<sni_activate(o1), sni_context_menu(o2)>>
         ELSE <<sni_activate(o1)>>
    ELSE IF click_type = "Right"
    THEN <<sni_context_menu(o1)>>
    ELSE <<sni_secondary_activate(o1)>>

\* mutant: a failed Activate is not followed by ContextMenu
Activation_NoFallback(click_type, item_is_menu, o1, o2) ==
    IF click_type = "Left"
    THEN IF item_is_menu
         THEN <<sni_context_menu(o1)>>
         ELSE <<sni_activate(o1)>>
    ELSE IF click_type = "Right"
    THEN <<sni_context_menu(o1)>>
    ELSE <<sni_secondary_activate(o1)>>

\* the match on click_type: the sni_* calls made, in order
Activation(click_type, item_is_menu, o1, o2) ==
    IF click_type = "Left"
    THEN IF item_is_menu
         THEN <<sni_context_menu(o1)>>
         ELSE IF IsErr(sni_activate(o1))
              THEN <<sni_activate(o1), sni_context_menu(o2)>>
              ELSE <<sni_activate(o1)>>
    ELSE IF click_type = "Right"
    THEN <<sni_context_menu(o1)>>
    ELSE <<sni_secondary_activate(o1)>>

\* mutant: the engine reconnects after an activation
OnActivation_Reconnect == StepSome(Tick, Disconnected)

\* TrayState::Connected, activate_rx.recv() returned a request
OnActivation == StepSome(Tick, Connected)

\* the calls a handler has made so far are all it makes
Complete(click_type, item_is_menu, attempts) ==
    \E o1 \in SniOutcomes, o2 \in SniOutcomes :
        Activation(click_type, item_is_menu, o1, o2) = attempts

\* the calls made so far, followed by the next one with the outcome it has
NextAttempts(click_type, item_is_menu, attempts) ==
    {SubSeq(all, 1, Len(attempts) + 1) :
        all \in {a \in {Activation(click_type, item_is_menu, o1, o2) :
                           o1 \in SniOutcomes, o2 \in SniOutcomes} :
                    /\ Len(a) > Len(attempts)
                    /\ SubSeq(a, 1, Len(attempts)) = attempts}}

\* ------------------------------------------------------------- actions
NoLast == [from |-> "none", input |-> "none", emitted |-> <<>>, attempts |-> <<>>,
           req |-> None, item_is_menu |-> FALSE]
NoInfo == [attempts |-> <<>>, req |-> None, item_is_menu |-> FALSE]

\* the items the tray service has registered when the bar starts
InitItems == {[a \in registered |-> ItemOf(a)] : registered \in {{}, {"a"}, Addr}}

Init ==
    /\ items \in InitItems
    /\ state = Disconnected
    /\ rx = <<>>
    /\ activate_rx = "none"
    /\ ACTIVATE_TX = FALSE
    /\ chan = <<>>
    /\ stream_done = FALSE
    /\ out = <<>>
    /\ tray_items = EmptyMap
    /\ fs = InitFs
    /\ theme_hit = InitThemeHit
    /\ last = NoLast
    /\ replay = <<>>
    /\ nreq = 0
    /\ serviced = 0
    /\ live = {}
    /\ epoch = "none"
    /\ nsvc = 0
    /\ clicked = None
    /\ arg = None
    /\ ret = None
    /\ ui = InitUi
    /\ inflight = None

\* the engine holds a Client (and with it a broadcast receiver)
HasClient == state.tag # "Disconnected" /\ ~stream_done

\* One poll of the unfold stream: the closure's result res is handed to the
\* runtime.  rxKept, arxKept and chanKept are the receivers as the step leaves
\* them; they are dropped when the next state is Disconnected or the stream ends.
EngineStep(res, input, info, rxKept, arxKept, chanKept) ==
    /\ ~stream_done
    /\ Len(out) < MaxQueue
    /\ last' = [from |-> state.tag, input |-> input,
                emitted |-> IF res.some THEN <<res.msg>> ELSE <<>>,
                attempts |-> info.attempts, req |-> info.req,
                item_is_menu |-> info.item_is_menu]
    /\ stream_done' = ~res.some
    /\ out' = IF res.some THEN Append(out, res.msg) ELSE out
    /\ state' = IF res.some THEN res.next ELSE state
    /\ LET dropped == ~res.some \/ res.next.tag = "Disconnected"
       IN  /\ rx' = IF dropped THEN <<>> ELSE rxKept
           /\ activate_rx' = IF dropped THEN "none" ELSE arxKept
           /\ chan' = IF dropped /\ arxKept = "first" THEN <<>> ELSE chanKept

\* Disconnected, Client::new() succeeds: subscribe, create the activation
\* channel, try to register its sender (OnceLock::set keeps the first one only)
ConnectOk ==
    /\ state.tag = "Disconnected"
    /\ \E initial \in Orderings(items) :
          EngineStep(OnConnectOk(initial), "ConnectOk", NoInfo, <<>>,
                     IF ACTIVATE_TX THEN "orphan" ELSE "first", chan)
    /\ ACTIVATE_TX' = TRUE
    /\ replay' = <<>>
    /\ epoch' = IF epoch = "none" THEN "first" ELSE "later"
    /\ UNCHANGED <<ui, inflight, arg, ret, clicked, items, tray_items, fs, theme_hit, nreq, serviced, live, nsvc>>

\* Disconnected, Client::new() fails
ConnectErr ==
    /\ state.tag = "Disconnected"
    /\ EngineStep(OnConnectErr, "ConnectErr", NoInfo, rx, activate_rx, chan)
    /\ UNCHANGED <<ui, inflight, arg, ret, clicked, items, ACTIVATE_TX, tray_items, fs, theme_hit, replay,
                   nreq, serviced, live, epoch, nsvc>>

\* one step of SendingInitial
SendInitial ==
    /\ state.tag = "SendingInitial"
    /\ LET res == OnSendingInitial(state)
       IN  /\ EngineStep(res, "Initial", NoInfo, rx, activate_rx, chan)
           /\ replay' = IF res.some /\ res.msg.type # "Tick"
                        THEN Append(replay, res.msg) ELSE replay
    /\ UNCHANGED <<ui, inflight, arg, ret, clicked, items, ACTIVATE_TX, tray_items, fs, theme_hit,
                   nreq, serviced, live, epoch, nsvc>>

\* Connected, the rx.recv() branch of select! completes with an event
BroadcastRecv ==
    /\ state.tag = "Connected"
    /\ inflight = None
    /\ rx # <<>>
    /\ EngineStep(OnBroadcastOk(Head(rx)), "Broadcast", NoInfo, Tail(rx), activate_rx, chan)
    /\ UNCHANGED <<ui, inflight, arg, ret, clicked, items, ACTIVATE_TX, tray_items, fs, theme_hit, replay,
                   nreq, serviced, live, epoch, nsvc>>

\* Connected, the rx.recv() branch completes with Err (closed or lagged)
BroadcastFail ==
    /\ state.tag = "Connected"
    /\ inflight = None
    /\ EngineStep(OnBroadcastErr, "BroadcastErr", NoInfo, rx, activate_rx, chan)
    /\ UNCHANGED <<ui, inflight, arg, ret, clicked, items, ACTIVATE_TX, tray_items, fs, theme_hit, replay,
                   nreq, serviced, live, epoch, nsvc>>

\* mutant: the request is read but left in the channel
Activate_Peek ==
    /\ state.tag = "Connected"
    /\ inflight = None
    /\ activate_rx = "first"
    /\ chan # <<>>
    /\ LET req == Head(chan)
           item_is_menu == ItemIsMenu(items, req.address)
       IN  /\ \E attempts \in {Activation(req.click_type, item_is_menu, o1, o2) :
                                    o1 \in SniOutcomes, o2 \in SniOutcomes} :
                  EngineStep(OnActivation, "Activation",
                             [attempts |-> attempts, req |-> Some(req),
                              item_is_menu |-> item_is_menu],
                             rx, activate_rx, chan)
           /\ serviced' = req.id
    /\ UNCHANGED <<ui, inflight, arg, ret, clicked, items, ACTIVATE_TX, tray_items, fs, theme_hit, replay,
                   nreq, live, epoch, nsvc>>

\* Connected, the activate_rx.recv() branch completes with a request.  An
\* orphan receiver (its sender was dropped) yields None, which disables the branch.
Activate ==
    /\ state.tag = "Connected"
    /\ inflight = None
    /\ activate_rx = "first"
    /\ chan # <<>>
    /\ LET req == Head(chan)
           item_is_menu == ItemIsMenu(items, req.address)
       IN  /\ \E attempts \in {Activation(req.click_type, item_is_menu, o1, o2) :
                                    o1 \in SniOutcomes, o2 \in SniOutcomes} :
                  EngineStep(OnActivation, "Activation",
                             [attempts |-> attempts, req |-> Some(req),
                              item_is_menu |-> item_is_menu],
                             rx, activate_rx, Tail(chan))
           /\ serviced' = req.id
    /\ UNCHANGED <<ui, inflight, arg, ret, clicked, items, ACTIVATE_TX, tray_items, fs, theme_hit, replay,
                   nreq, live, epoch, nsvc>>

\* The activation branch step by step.  The select! completes with a request:
\* it leaves the channel, and the body reads item_is_menu before its first await
ActivateBegin ==
    /\ state.tag = "Connected"
    /\ inflight = None
    /\ ~stream_done
    /\ activate_rx = "first"
    /\ chan # <<>>
    /\ inflight' = Some([req |-> Head(chan), attempts |-> <<>>,
                         item_is_menu |-> ItemIsMenu(items, Head(chan).address)])
    /\ chan' = Tail(chan)
    /\ UNCHANGED <<ui, arg, ret, clicked, items, state, rx, activate_rx, ACTIVATE_TX, stream_done,
                   out, tray_items, fs, theme_hit, last, replay, nreq, serviced, live,
                   epoch, nsvc>>

\* one awaited sni_* call of the body returns
SniReturn ==
    /\ IsSome(inflight)
    /\ LET f == Unwrap(inflight)
       IN  \E attempts \in NextAttempts(f.req.click_type, f.item_is_menu, f.attempts) :
              inflight' = Some([f EXCEPT !.attempts = attempts])
    /\ UNCHANGED <<ui, arg, ret, clicked, items, state, rx, activate_rx, ACTIVATE_TX, chan,
                   stream_done, out, tray_items, fs, theme_hit, last, replay, nreq, serviced,
                   live, epoch, nsvc>>

\* the body has made its calls and returns Some((Tick, Connected))
ActivateEnd ==
    /\ IsSome(inflight)
    /\ LET f == Unwrap(inflight)
       IN  /\ Complete(f.req.click_type, f.item_is_menu, f.attempts)
           /\ EngineStep(OnActivation, "Activation",
                         [attempts |-> f.attempts, req |-> Some(f.req),
                          item_is_menu |-> f.item_is_menu],
                         rx, activate_rx, chan)
           /\ serviced' = f.req.id
    /\ inflight' = None
    /\ UNCHANGED <<ui, arg, ret, clicked, items, ACTIVATE_TX, tray_items, fs, theme_hit, replay,
                   nreq, live, epoch, nsvc>>

\* the broadcast the client library sends when the service changes
Broadcast(event) ==
    /\ HasClient => Len(rx) < MaxQueue
    /\ rx' = IF HasClient THEN Append(rx, event) ELSE rx

\* the tray service registers an item
SvcAdd ==
    /\ nsvc < MaxSvc
    /\ \E a \in Addr \ DOMAIN items :
          /\ items' = Insert(items, a, ItemOf(a))
          /\ Broadcast(EvAdd(a, ItemOf(a)))
    /\ nsvc' = nsvc + 1
    /\ UNCHANGED <<ui, inflight, arg, ret, clicked, state, activate_rx, ACTIVATE_TX, chan, stream_done, out, tray_items,
                   fs, theme_hit, last, replay, nreq, serviced, live, epoch>>

\* a registered item changes its icon
SvcUpdateIcon ==
    /\ nsvc < MaxSvc
    /\ \E a \in DOMAIN items, icon \in {IconPix, IconNamed} :
          /\ items' = [items EXCEPT ![a].icon.pixmap = icon.pixmap,
                                    ![a].icon.icon_name = icon.icon_name]
          /\ items' # items
          /\ Broadcast(EvUpdate(a, UpdateIcon(icon.icon_name, icon.pixmap)))
    /\ nsvc' = nsvc + 1
    /\ UNCHANGED <<ui, inflight, arg, ret, clicked, state, activate_rx, ACTIVATE_TX, chan, stream_done, out, tray_items,
                   fs, theme_hit, last, replay, nreq, serviced, live, epoch>>

\* a registered item changes something other than its icon (title, status, ...)
SvcUpdateOther ==
    /\ nsvc < MaxSvc
    /\ HasClient
    /\ \E a \in DOMAIN items : Broadcast(EvUpdate(a, UpdateOther))
    /\ nsvc' = nsvc + 1
    /\ UNCHANGED <<ui, inflight, arg, ret, clicked, items, state, activate_rx, ACTIVATE_TX, chan, stream_done, out, tray_items,
                   fs, theme_hit, last, replay, nreq, serviced, live, epoch>>

\* the tray service unregisters an item
SvcRemove ==
    /\ nsvc < MaxSvc
    /\ \E a \in DOMAIN items :
          /\ items' = RemoveKey(items, a)
          /\ Broadcast(EvRemove(a))
    /\ nsvc' = nsvc + 1
    /\ UNCHANGED <<ui, inflight, arg, ret, clicked, state, activate_rx, ACTIVATE_TX, chan, stream_done, out, tray_items,
                   fs, theme_hit, last, replay, nreq, serviced, live, epoch>>

\* the addresses whose most recent Add is not followed by a Remove
LiveAfter(l, event) ==
    IF event.type = "Add" THEN l \cup {event.address}
    ELSE IF event.type = "Remove" THEN l \ {event.address}
    ELSE l

\* the runtime hands the next stream message to update()
DeliverTray ==
    /\ out # <<>>
    /\ tray_items' = UpdateTray(tray_items, Head(out), fs, theme_hit)
    /\ out' = Tail(out)
    /\ live' = LiveAfter(live, Head(out))
    /\ UNCHANGED <<ui, inflight, arg, ret, clicked, items, state, rx, activate_rx, ACTIVATE_TX, chan, stream_done, fs,
                   theme_hit, last, replay, nreq, serviced, epoch, nsvc>>

\* update(), the left and middle click arm: send to ACTIVATE_TX when it is set;
\* the send fails, and is ignored, when the channel's receiver has been dropped
\* (sent_in and epoch are history carried with the request: the engine state and
\* the connection during which it was sent)
Sent(address, click_type) ==
    LET accepted == ACTIVATE_TX /\ activate_rx = "first"
        req == [id |-> nreq + 1, address |-> address, click_type |-> click_type,
                x |-> AsWhole(ui.mouse_position[1]), y |-> AsWhole(ui.mouse_position[2]),
                sent_in |-> state.tag, epoch |-> epoch]
    IN  [chan |-> IF accepted THEN Append(chan, req) ELSE chan,
         nreq |-> IF accepted THEN nreq + 1 ELSE nreq]

SendRequest(address, click_type) ==
    /\ chan' = Sent(address, click_type).chan
    /\ nreq' = Sent(address, click_type).nreq

\* the user left- or middle-clicks an icon the bar shows (view renders the
\* entries that have an icon; the bar window is taken to be on screen)
ClickIcon(limit) ==
    /\ nreq < limit
    /\ \E a \in DOMAIN tray_items, ct \in {"Left", "Middle"} :
          /\ IsSome(tray_items[a].icon)
          /\ SendRequest(a, ct)
    /\ UNCHANGED <<ui, inflight, arg, ret, clicked, items, state, rx, activate_rx, ACTIVATE_TX, stream_done, out, tray_items,
                   fs, theme_hit, last, replay, serviced, live, epoch, nsvc>>

Next ==
    \/ ConnectOk
    \/ ConnectErr
    \/ SendInitial
    \/ BroadcastRecv
    \/ BroadcastFail
    \/ Activate
    \/ SvcAdd
    \/ SvcUpdateIcon
    \/ SvcUpdateOther
    \/ SvcRemove
    \/ DeliverTray
    \/ ClickIcon(MaxReq)

Spec == Init /\ [][Next]_vars

\* --------------------------- a burst of clicks while the service is quiet
\* the engine, the catalog and the user; the tray service registers and
\* unregisters nothing, so rx.recv() only ever completes with an error
NextReq ==
    \/ ConnectOk
    \/ ConnectErr
    \/ SendInitial
    \/ BroadcastFail
    \/ Activate
    \/ DeliverTray
    \/ ClickIcon(MaxBurst)

SpecReq == Init /\ [][NextReq]_vars

\* ------------------------------------ clicks under a fair scheduler
\* ClickIcon with the click recorded in clicked: the rank its request got in
\* the channel (0 when the send was skipped or failed), the engine state and
\* the connection during which update() handled it
ClickTraced(limit) ==
    /\ nreq < limit
    /\ \E a \in DOMAIN tray_items, ct \in {"Left", "Middle"} :
          /\ IsSome(tray_items[a].icon)
          /\ SendRequest(a, ct)
    /\ clicked' = Some([id |-> IF ACTIVATE_TX /\ activate_rx = "first" THEN nreq + 1 ELSE 0,
                        sent_in |-> state.tag, epoch |-> epoch])
    /\ UNCHANGED <<ui, inflight, arg, ret, items, state, rx, activate_rx, ACTIVATE_TX, stream_done, out,
                   tray_items, fs, theme_hit, last, replay, serviced, live, epoch, nsvc>>

NextLive ==
    \/ ConnectOk
    \/ ConnectErr
    \/ SendInitial
    \/ BroadcastFail
    \/ Activate
    \/ DeliverTray
    \/ ClickTraced(MaxBurst)

\* the runtime keeps polling the stream and keeps handing its messages to
\* update(); select! takes the activation branch when it stays ready
SpecLive ==
    /\ Init
    /\ [][NextLive]_vars
    /\ WF_vars(DeliverTray)
    /\ WF_vars(SendInitial)
    /\ WF_vars(Activate)

\* ------------------------------------------------ update() as a whole
\* update(state, msg) on the current State: the fields it leaves, the channel
\* as the send leaves it, and the Task it returns
update(msg) ==
    LET same == [tray_items |-> tray_items, ui |-> ui, chan |-> chan, nreq |-> nreq,
                 task |-> <<>>]
    IN  CASE msg.kind = "Tray" ->
                 [same EXCEPT !.tray_items = UpdateTray(tray_items, msg.event, fs, theme_hit)]
          [] msg.kind = "TrayIconClicked" ->
                 IF msg.click_type = "Right"
                 THEN [same EXCEPT !.ui = OnRightClick(ui, msg.address).ui,
                                   !.task = OnRightClick(ui, msg.address).task]
                 ELSE [same EXCEPT !.chan = Sent(msg.address, msg.click_type).chan,
                                   !.nreq = Sent(msg.address, msg.click_type).nreq]
          [] msg.kind = "ClosePopup" ->
                 [same EXCEPT !.ui = OnClosePopup(ui).ui, !.task = OnClosePopup(ui).task]
          [] msg.kind = "WindowResized" ->
                 [same EXCEPT !.ui = OnWindowResized(ui, msg.id, msg.width)]
          [] msg.kind = "TrayIconHover" ->
                 [same EXCEPT !.tray_items = UpdateHover(tray_items, msg.address, msg.is_hovered)]
          [] msg.kind = "MouseMoved" ->
                 [same EXCEPT !.ui = OnMouseMoved(ui, msg.point)]
          [] OTHER -> same

\* the runtime calls update() with msg
Handle(msg) ==
    /\ tray_items' = update(msg).tray_items
    /\ ui' = update(msg).ui
    /\ chan' = update(msg).chan
    /\ nreq' = update(msg).nreq

\* pointer positions and window widths the compositor reports, in half pixels:
\* (0, 0), (150.5, 10), (250, 10.5) and 100, 101.5, 300
Points == {<<0, 0>>, <<301, 20>>, <<500, 21>>}
Widths == {200, 203, 600}

\* the icons view() draws: those of the entries that have one, in the window
\* main_bar_id names and in no other
Rendered ==
    IF ui.main_bar_id = Some(BarWindow)
    THEN {a \in DOMAIN tray_items : IsSome(tray_items[a].icon)}
    ELSE {}

\* the user left- or middle-clicks an icon drawn in the bar
PressIcon(limit) ==
    /\ Rendered # {}
    /\ ClickIcon(limit)

\* the user right-clicks an icon the bar shows
RightClick ==
    /\ \E a \in Rendered :
          /\ IsSome(ui.main_bar_id) => ui.unique < BarWindow + MaxPopups
          /\ Handle(MsgClicked(a, "Right"))
    /\ UNCHANGED <<inflight, arg, ret, clicked, items, state, rx, activate_rx, ACTIVATE_TX,
                   stream_done, out, fs, theme_hit, last, replay, serviced, live, epoch, nsvc>>

\* the Close button of view_popup, which every window but main_bar_id shows
ClosePopup ==
    /\ Handle(MsgClosePopup)
    /\ UNCHANGED <<inflight, arg, ret, clicked, items, state, rx, activate_rx, ACTIVATE_TX,
                   stream_done, out, fs, theme_hit, last, replay, serviced, live, epoch, nsvc>>

\* a window the program has opened is opened or resized
WindowResized ==
    /\ \E id \in BarWindow..ui.unique, width \in Widths :
          Handle(MsgWindowResized(id, width))
    /\ UNCHANGED <<inflight, arg, ret, clicked, items, state, rx, activate_rx, ACTIVATE_TX,
                   stream_done, out, fs, theme_hit, last, replay, serviced, live, epoch, nsvc>>

\* the pointer moves
MouseMoved ==
    /\ \E point \in Points : Handle(MsgMouseMoved(point))
    /\ UNCHANGED <<inflight, arg, ret, clicked, items, state, rx, activate_rx, ACTIVATE_TX,
                   stream_done, out, fs, theme_hit, last, replay, serviced, live, epoch, nsvc>>

\* every message update() can be called with in the current state
Messages ==
    {MsgTray(event) : event \in TrayEvents}
        \cup {MsgClicked(a, ct) : a \in Addr, ct \in {"Left", "Middle", "Right"}}
        \cup {MsgHover(a, h) : a \in Addr, h \in BOOLEAN}
        \cup {MsgClosePopup}
        \cup {MsgWindowResized(id, width) : id \in BarWindow..ui.unique, width \in Widths}
        \cup {MsgMouseMoved(point) : point \in Points}
        \cup {MsgCloseWindow(id) : id \in BarWindow..ui.unique}
        \cup {MsgOpenPopup(BarWindow, id, <<MenuWidth, MenuHeight>>, <<Margin, PopupY>>) :
                 id \in BarWindow..ui.unique}

\* ------------------------------------------ the engine and the pointer
\* the engine, the catalog and a user who moves the pointer and clicks
NextClk ==
    \/ ConnectOk
    \/ SendInitial
    \/ BroadcastFail
    \/ Activate
    \/ DeliverTray
    \/ PressIcon(MaxReq)
    \/ RightClick
    \/ WindowResized
    \/ MouseMoved

SpecClk == Init /\ [][NextClk]_vars

\* -------------------------------- the activation branch step by step
\* the engine, the tray service, the catalog and the user, with the awaits of
\* the activation branch as steps of their own
NextAct ==
    \/ ConnectOk
    \/ SendInitial
    \/ BroadcastRecv
    \/ BroadcastFail
    \/ ActivateBegin
    \/ SniReturn
    \/ ActivateEnd
    \/ SvcAdd
    \/ SvcRemove
    \/ DeliverTray
    \/ ClickIcon(MaxReq)

SpecAct == Init /\ [][NextAct]_vars

\* ------------------------------------------- the reducer on its own
\* update() applied to arbitrary tray events and hover messages
UITray ==
    /\ \E event \in TrayEvents :
          /\ tray_items' = UpdateTray(tray_items, event, fs, theme_hit)
          /\ live' = LiveAfter(live, event)
    /\ UNCHANGED <<ui, inflight, arg, ret, clicked, items, state, rx, activate_rx, ACTIVATE_TX, chan, stream_done, out, fs,
                   theme_hit, last, replay, nreq, serviced, epoch, nsvc>>

UIHover ==
    /\ \E a \in Addr, h \in BOOLEAN :
          tray_items' = UpdateHover(tray_items, a, h)
    /\ UNCHANGED <<ui, inflight, arg, ret, clicked, live, items, state, rx, activate_rx, ACTIVATE_TX, chan, stream_done, out, fs,
                   theme_hit, last, replay, nreq, serviced, epoch, nsvc>>

NextUI == UITray \/ UIHover

SpecUI == Init /\ [][NextUI]_vars

\* -------------------------------- the reducer with windows and pointer
\* update() applied to arbitrary tray events, hover, right clicks, popup,
\* window and pointer messages
NextWin ==
    \/ UITray
    \/ UIHover
    \/ RightClick
    \/ ClosePopup
    \/ WindowResized
    \/ MouseMoved

SpecWin == Init /\ [][NextWin]_vars

\* --------------------------------------- pixmap_to_handle on its own
\* everything but arg and ret stays as the program starts
EngineIdle ==
    /\ items = [a \in {} |-> ItemOf(a)]
    /\ state = Disconnected
    /\ rx = <<>>
    /\ activate_rx = "none"
    /\ ACTIVATE_TX = FALSE
    /\ chan = <<>>
    /\ stream_done = FALSE
    /\ out = <<>>
    /\ tray_items = EmptyMap
    /\ last = NoLast
    /\ replay = <<>>
    /\ nreq = 0
    /\ serviced = 0
    /\ live = {}
    /\ epoch = "none"
    /\ nsvc = 0
    /\ clicked = None
    /\ ui = InitUi
    /\ inflight = None

\* pixel buffers of every length up to MaxBytes, all bytes different
Bytes(n) == [i \in 1..n |-> (i * 37) % 256]
Pixmaps ==
    {[width |-> d[1], height |-> d[2], pixels |-> Bytes(n)] :
        d \in {<<1, 1>>, <<1, 2>>, <<2, 1>>}, n \in 0..MaxBytes}
PixmapLists == UNION {[1..n -> Pixmaps] : n \in 0..MaxPixmaps}

InitPixmap ==
    /\ EngineIdle
    /\ fs = InitFs
    /\ theme_hit = InitThemeHit
    /\ arg \in {Some(pixmaps) : pixmaps \in PixmapLists}
    /\ ret = None

CallPixmapToHandle ==
    /\ ret = None
    /\ ret' = Some(pixmap_to_handle(Unwrap(arg)))
    /\ UNCHANGED <<ui, inflight, arg, items, state, rx, activate_rx, ACTIVATE_TX, chan, stream_done, out,
                   tray_items, fs, theme_hit, last, replay, nreq, serviced, live, epoch,
                   nsvc, clicked>>

SpecPixmap == InitPixmap /\ [][CallPixmapToHandle]_vars

\* ------------------------------- address lookup and parsing on their own
\* a String is the sequence of its characters
Chars == {"1", "/"}
Strings == UNION {[1..n -> Chars] : n \in 0..MaxLen}
StatusNotifierItem ==
    <<"/", "S", "t", "a", "t", "u", "s", "N", "o", "t", "i", "f", "i", "e", "r", "I", "t", "e", "m">>

\* str::starts_with
StartsWith(s, prefix) ==
    /\ Len(prefix) <= Len(s)
    /\ SubSeq(s, 1, Len(prefix)) = prefix

\* zbus::Result<String>
ZOk(value) == [ok |-> TRUE, value |-> value]
ZErr == [ok |-> FALSE, value |-> <<>>]

\* what the session bus and the watcher answer: an error, or the property
\* RegisteredStatusNotifierItems
WatcherReplies ==
    {ZErr} \cup {ZOk(list) : list \in UNION {[1..n -> Strings] : n \in 0..MaxItems}}

\* mutant: the last entry that starts with the bus name is returned
lookup_full_sni_address_LastMatch(watcher, bus_name) ==
    IF ~watcher.ok THEN ZErr
    ELSE LET items_ == watcher.value
             matches == {i \in 1..Len(items_) : StartsWith(items_[i], bus_name)}
         IN  IF matches # {}
             THEN ZOk(items_[CHOOSE i \in matches : \A j \in matches : j <= i])
             ELSE ZOk(bus_name \o StatusNotifierItem)

\* lookup_full_sni_address: every `?` returns the error of the connection, the
\* proxy or the property read
lookup_full_sni_address(watcher, bus_name) ==
    IF ~watcher.ok THEN ZErr
    ELSE LET items_ == watcher.value
             matches == {i \in 1..Len(items_) : StartsWith(items_[i], bus_name)}
         IN  IF matches # {}
             THEN ZOk(items_[CHOOSE i \in matches : \A j \in matches : i <= j])
             ELSE ZOk(bus_name \o StatusNotifierItem)

\* str::split_once('/'): the position of the first '/', 0 when there is none
FirstSlash(s) ==
    IF \E i \in 1..Len(s) : s[i] = "/"
    THEN CHOOSE i \in 1..Len(s) : s[i] = "/" /\ \A j \in 1..(i - 1) : s[j] # "/"
    ELSE 0

\* mutant: the path is the remainder as split_once leaves it
parse_sni_address_NoSlash(address) ==
    IF FirstSlash(address) = 0
    THEN <<address, StatusNotifierItem>>
    ELSE <<SubSeq(address, 1, FirstSlash(address) - 1),
           SubSeq(address, FirstSlash(address) + 1, Len(address))>>

\* parse_sni_address: (destination, path)
parse_sni_address(address) ==
    IF FirstSlash(address) = 0
    THEN <<address, StatusNotifierItem>>
    ELSE <<SubSeq(address, 1, FirstSlash(address) - 1),
           <<"/">> \o SubSeq(address, FirstSlash(address) + 1, Len(address))>>

InitAddr ==
    /\ EngineIdle
    /\ fs = InitFs
    /\ theme_hit = InitThemeHit
    /\ arg \in {Some([watcher |-> w, bus_name |-> b]) : w \in WatcherReplies, b \in Strings}
    /\ ret = None

\* the first line of sni_activate, sni_context_menu and sni_secondary_activate
CallLookup ==
    /\ ret = None
    /\ ret' = Some([full_address |-> lookup_full_sni_address(Unwrap(arg).watcher,
                                                              Unwrap(arg).bus_name),
                    parsed |-> None])
    /\ UNCHANGED <<ui, inflight, arg, items, state, rx, activate_rx, ACTIVATE_TX, chan, stream_done, out,
                   tray_items, fs, theme_hit, last, replay, nreq, serviced, live, epoch,
                   nsvc, clicked>>

\* their second line, reached when the lookup returned Ok
CallParse ==
    /\ IsSome(ret)
    /\ Unwrap(ret).full_address.ok
    /\ Unwrap(ret).parsed = None
    /\ ret' = Some([Unwrap(ret) EXCEPT
                       !.parsed = Some(parse_sni_address(Unwrap(ret).full_address.value))])
    /\ UNCHANGED <<ui, inflight, arg, items, state, rx, activate_rx, ACTIVATE_TX, chan, stream_done, out,
                   tray_items, fs, theme_hit, last, replay, nreq, serviced, live, epoch,
                   nsvc, clicked>>

NextAddr == CallLookup \/ CallParse

SpecAddr == InitAddr /\ [][NextAddr]_vars

\* ------------------------------------------- resolve_icon on its own
\* the IconData values handed to resolve_icon
ResolverInputs ==
    {[pixmap |-> pm, icon_name |-> n, icon_theme_path |-> tp] :
        pm \in {None, Some(<<>>), Some(<<PixA, PixB>>)},
        n \in {None, Some(""), Some("foo")},
        tp \in {None, Some("/t")}}

\* what freedesktop_icons::lookup("foo") may find: nothing, a png, an svg with
\* an upper-case extension, a file of another type, a file without extension,
\* a path that cannot be read
ThemedFile == Path("/usr/share/icons/foo", "png")
ThemedHits ==
    {None, Some(ThemedFile), Some(Path("/usr/share/icons/foo", "SVG")),
     Some(Path("/usr/share/icons/foo", "xpm")), Some(Path("/usr/share/icons/foo", "")),
     Some(Path("/usr/share/icons/gone", "png"))}

\* the disks: every subset of the six candidates under /t exists, their
\* content is an image or is not one; the themed png is a readable image
Disks ==
    {[p \in {Candidates("/t", "foo")[i] : i \in existing} \cup {ThemedFile} |->
          IF p = ThemedFile THEN "image" ELSE content] :
        existing \in SUBSET (1..6), content \in {"image", "garbage"}}

InitIcon ==
    /\ EngineIdle
    /\ fs \in Disks
    /\ theme_hit \in {[n \in IconNames |-> h] : h \in ThemedHits}
    /\ arg \in {Some(icon) : icon \in ResolverInputs}
    /\ ret = None

CallResolveIcon ==
    /\ ret = None
    /\ ret' = Some(resolve_icon(Unwrap(arg), fs, theme_hit))
    /\ UNCHANGED <<ui, inflight, arg, items, state, rx, activate_rx, ACTIVATE_TX, chan, stream_done, out,
                   tray_items, fs, theme_hit, last, replay, nreq, serviced, live, epoch,
                   nsvc, clicked>>

SpecIcon == InitIcon /\ [][CallResolveIcon]_vars

\* ------------------------------------------------------------ properties
\* the engine is Connected with nothing in flight towards the catalog
Quiescent == state.tag = "Connected" /\ ~stream_done /\ rx = <<>> /\ out = <<>>

\* C1: whenever the engine is Connected and has no undelivered broadcast event
\* and no pending output message, every address in the UI catalog is an item
\* the tray service currently reports as registered.
C1_CatalogWithinService == Quiescent => DOMAIN tray_items \subseteq DOMAIN items

AddsOf(list) == [i \in 1..Len(list) |-> Add(list[i].address, list[i].icon)]

\* C2: while in SendingInitial the non-Tick messages emitted since the connect
\* are exactly the Adds of the first `index` snapshot entries, in snapshot order;
\* every step taken in SendingInitial either emits one more of them and stays,
\* or moves to Connected, and it moves to Connected only when the whole
\* snapshot has been replayed.
C2_Replay ==
    /\ [](state.tag = "SendingInitial" =>
              /\ state.index <= Len(state.initial)
              /\ replay = AddsOf(SubSeq(state.initial, 1, state.index)))
    /\ [][(state.tag = "SendingInitial" /\ (Len(out') > Len(out) \/ stream_done')) =>
              \/ /\ state'.tag = "SendingInitial"
                 /\ state'.initial = state.initial
                 /\ Len(replay') = Len(replay) + 1
              \/ /\ state'.tag = "Connected"
                 /\ ~stream_done'
                 /\ replay' = AddsOf(state.initial)]_vars

C2_Witness == state.tag = "Connected" /\ Len(replay) = 2 /\ last.from = "SendingInitial"

\* C3: a failed connect attempt is made from Disconnected, yields exactly one
\* Tick, leaves the engine Disconnected and does not end the stream, so the
\* next poll attempts to connect again.
C3_FailedConnect ==
    last.input = "ConnectErr" =>
        /\ last.from = "Disconnected"
        /\ last.emitted = <<Tick>>
        /\ state = Disconnected
        /\ ~stream_done

C3_Witness == last.input = "ConnectErr" /\ epoch = "first"

\* C4: every step of the state machine yields exactly one message, a Tick, Add,
\* Update or Remove, and a next state; the stream never ends.
C4_OutputContract ==
    /\ ~stream_done
    /\ state.tag \in {"Disconnected", "SendingInitial", "Connected"}
    /\ last.input # "none" =>
          /\ Len(last.emitted) = 1
          /\ last.emitted[1].type \in {"Tick", "Add", "Update", "Remove"}
          /\ last.emitted[1].type # "Tick" => last.emitted[1].address \in Addr

C4_Witness == last.input = "BroadcastErr" /\ state.tag = "Disconnected" /\ Len(out) = MaxQueue

ServicedLeft == last.input = "Activation" /\ Unwrap(last.req).click_type = "Left"

\* C5: servicing a Left request for an address whose item_is_menu is true makes
\* exactly one sni_context_menu call and no sni_activate call, whatever the
\* outcome of that call.
C5_MenuItem ==
    (ServicedLeft /\ last.item_is_menu) =>
        /\ Len(last.attempts) = 1
        /\ last.attempts[1].method = "ContextMenu"

C5_Witness ==
    /\ ServicedLeft /\ last.item_is_menu
    /\ last.attempts[1].outcome = "CallErr"

\* C6: servicing a Left request for an address whose item_is_menu is false, or
\* which is not in the live item map, starts with sni_activate; when it fails
\* exactly one sni_context_menu call follows (two attempts in all), when it
\* succeeds nothing follows.
C6_Fallback ==
    (ServicedLeft /\ ~last.item_is_menu) =>
        /\ last.attempts[1].method = "Activate"
        /\ IF last.attempts[1].outcome # "Ok"
           THEN /\ Len(last.attempts) = 2
                /\ last.attempts[2].method = "ContextMenu"
           ELSE Len(last.attempts) = 1

C6_Witness ==
    /\ ServicedLeft /\ ~last.item_is_menu
    /\ last.attempts[1].outcome = "CallErr"
    /\ Len(last.attempts) = 2

\* C7: when the address resolution fails while a request is serviced, no remote
\* method is invoked for that request and the address is not resolved again
\* (each sni_* call resolves the address once).
C7_ResolutionAborts ==
    (last.input = "Activation" /\ \E i \in 1..Len(last.attempts) : last.attempts[i].outcome = "LookupErr") =>
        /\ \A i \in 1..Len(last.attempts) : ~Invoked(last.attempts[i])
        /\ Len(last.attempts) = 1

C9_Lifecycle ==
    /\ DOMAIN tray_items = live
    /\ \A event \in TrayEvents :
          LET after == UpdateTray(tray_items, event, fs, theme_hit)
              a == event.address
          IN  /\ event.type = "Remove" => a \notin DOMAIN after
              /\ (event.type = "Update" /\ a \in DOMAIN tray_items) =>
                     /\ a \in DOMAIN after
                     /\ after[a].hovered = tray_items[a].hovered
                     /\ after[a].icon = resolve_icon(event.icon, fs, theme_hit)

\* C10: handling the same Add twice leaves the catalog as handling it once
\* does; the entry keeps the hover flag of the entry it replaces and has
\* hovered = false when there was none.
C10_AddIdempotent ==
    \A a \in Addr, icon \in IconDatas :
        LET once == UpdateTray(tray_items, Add(a, icon), fs, theme_hit)
            twice == UpdateTray(once, Add(a, icon), fs, theme_hit)
        IN  /\ twice = once
            /\ a \in DOMAIN once
            /\ once[a].hovered = (IF a \in DOMAIN tray_items THEN tray_items[a].hovered ELSE FALSE)

C10_Witness ==
    \E a \in live, b \in Addr :
        /\ a \in DOMAIN tray_items
        /\ tray_items[a].hovered
        /\ b \notin DOMAIN tray_items

\* C11: servicing a Right request makes exactly one ContextMenu call and
\* servicing a Middle request makes exactly one SecondaryActivate call, whatever
\* the item_is_menu flag and whatever the outcome of the call; when the call
\* fails nothing else is called and the engine goes on: it emits its Tick and
\* stays Connected.
C11_NoFallback ==
    /\ \A item_is_menu \in BOOLEAN, o1 \in SniOutcomes, o2 \in SniOutcomes :
          /\ Activation("Right", item_is_menu, o1, o2) = <<SniCall("ContextMenu", o1)>>
          /\ Activation("Middle", item_is_menu, o1, o2) = <<SniCall("SecondaryActivate", o1)>>
    /\ (last.input = "Activation" /\ Unwrap(last.req).click_type = "Middle") =>
          /\ Len(last.attempts) = 1
          /\ last.attempts[1].method = "SecondaryActivate"
          /\ last.emitted = <<Tick>>
          /\ state = Connected
          /\ ~stream_done

C11_Witness ==
    /\ last.input = "Activation"
    /\ Unwrap(last.req).click_type = "Middle"
    /\ last.attempts[1].outcome \in {"LookupErr", "CallErr"}

Area(pixmap) == pixmap.width * pixmap.height

\* C12: for a pixmap list with at least one entry the handle returned is made
\* from an entry of maximal width*height, and of the entries that share the
\* maximum it is made from the first one in list order.
C12_FirstMaxWins ==
    (IsSome(ret) /\ Len(Unwrap(arg)) >= 1) =>
        LET pixmaps == Unwrap(arg)
            first == CHOOSE i \in 1..Len(pixmaps) :
                        /\ \A j \in 1..Len(pixmaps) : Area(pixmaps[j]) <= Area(pixmaps[i])
                        /\ \A j \in 1..(i - 1) : Area(pixmaps[j]) < Area(pixmaps[i])
        IN  Unwrap(ret) = Some(Raster(pixmaps[first].width, pixmaps[first].height,
                                      ArgbToRgba(pixmaps[first].pixels)))

\* C15: the rgba buffer of the handle holds, for each complete 4-byte pixel
\* [A,R,G,B] of the selected pixmap in order, the bytes [R,G,B,A]; its length
\* is 4 * floor(len / 4), so the bytes of an incomplete last pixel are dropped.
C15_ArgbToRgba ==
    (IsSome(ret) /\ Len(Unwrap(arg)) >= 1) =>
        LET pixels == Unwrap(arg)[MaxByKeyIndex(Unwrap(arg))].pixels
            rgba == Unwrap(Unwrap(ret)).rgba
        IN  /\ Len(rgba) = 4 * (Len(pixels) \div 4)
            /\ \A k \in 0..((Len(pixels) \div 4) - 1) :
                   /\ rgba[4 * k + 1] = pixels[4 * k + 2]
                   /\ rgba[4 * k + 2] = pixels[4 * k + 3]
                   /\ rgba[4 * k + 3] = pixels[4 * k + 4]
                   /\ rgba[4 * k + 4] = pixels[4 * k + 1]

C15_Witness ==
    /\ IsSome(ret)
    /\ Len(Unwrap(arg)) >= 1
    /\ Len(Unwrap(arg)[MaxByKeyIndex(Unwrap(arg))].pixels) = 9
    /\ Len(Unwrap(Unwrap(ret)).rgba) = 8

\* C13: when the bus or the watcher fails the lookup returns the error; otherwise
\* it returns the first entry of the registered list, in list order, that
\* starts with the bus name, and when no entry does it returns the bus name
\* followed by "/StatusNotifierItem".
C13_Lookup ==
    IsSome(ret) =>
        LET watcher == Unwrap(arg).watcher
            bus_name == Unwrap(arg).bus_name
            full_address == Unwrap(ret).full_address
        IN  IF ~watcher.ok THEN ~full_address.ok
            ELSE /\ full_address.ok
                 /\ IF \E i \in 1..Len(watcher.value) : StartsWith(watcher.value[i], bus_name)
                    THEN \E i \in 1..Len(watcher.value) :
                            /\ StartsWith(watcher.value[i], bus_name)
                            /\ \A j \in 1..(i - 1) : ~StartsWith(watcher.value[j], bus_name)
                            /\ full_address.value = watcher.value[i]
                    ELSE full_address.value = bus_name \o StatusNotifierItem

C13_Witness ==
    /\ IsSome(ret)
    /\ Unwrap(arg).watcher.ok
    /\ Len(Unwrap(arg).watcher.value) = 2
    /\ Unwrap(arg).watcher.value[1] # Unwrap(arg).watcher.value[2]
    /\ \A i \in 1..2 : StartsWith(Unwrap(arg).watcher.value[i], Unwrap(arg).bus_name)
    /\ Unwrap(ret).full_address.value = Unwrap(arg).watcher.value[1]

HasSlash(s) == \E i \in 1..Len(s) : s[i] = "/"

\* C14: parsing an address without '/' gives (address, "/StatusNotifierItem");
\* parsing one with a '/' gives a destination without '/' and a path that
\* starts with '/', and destination followed by path is the address, so the
\* split is at the first '/'.  Parsing the lookup's fallback for a bus name
\* without '/' gives (bus name, "/StatusNotifierItem").
C14_Parse ==
    /\ (IsSome(ret) /\ IsSome(Unwrap(ret).parsed)) =>
          LET address == Unwrap(ret).full_address.value
              dest == Unwrap(Unwrap(ret).parsed)[1]
              path == Unwrap(Unwrap(ret).parsed)[2]
          IN  IF ~HasSlash(address)
              THEN dest = address /\ path = StatusNotifierItem
              ELSE /\ ~HasSlash(dest)
                   /\ path[1] = "/"
                   /\ dest \o path = address
    /\ \A short \in Strings :
          ~HasSlash(short) =>
              parse_sni_address(short \o StatusNotifierItem) = <<short, StatusNotifierItem>>

C14_Witness ==
    /\ IsSome(ret)
    /\ IsSome(Unwrap(ret).parsed)
    /\ Unwrap(arg).bus_name = <<"1">>
    /\ Unwrap(ret).full_address.value = <<"1", "/">>
    /\ Unwrap(Unwrap(ret).parsed) = <<(<<"1">>), (<<"/">>)>>

UsesPixmap(icon) == IsSome(icon.pixmap) /\ Unwrap(icon.pixmap) # <<>>
UsesName(icon) == ~UsesPixmap(icon) /\ IsSome(icon.icon_name) /\ Unwrap(icon.icon_name) # ""

\* the file the name lookup settles on: the themed hit, else the first
\* existing candidate under the theme path hint, else none
FoundFile(icon) ==
    IF IsSome(theme_hit[Unwrap(icon.icon_name)]) THEN theme_hit[Unwrap(icon.icon_name)]
    ELSE IF IsSome(icon.icon_theme_path)
    THEN FirstExisting(Candidates(Unwrap(icon.icon_theme_path), Unwrap(icon.icon_name)), fs)
    ELSE None

\* C16: with a non-empty pixmap list the result is the handle made from the
\* pixmaps, whatever icon_name, the theme path hint, the theme database and the
\* disk are; without one and with a non-empty icon_name the result comes from
\* the name lookup; otherwise it is None.  A name lookup that finds no file, a
\* file with an extension other than svg or png, a png that cannot be read or
\* decoded all give None; the result is always None or one handle.
C16_SourcePriority ==
    IsSome(ret) =>
        LET icon == Unwrap(arg)
            result == Unwrap(ret)
        IN  /\ Len(result) <= 1
            /\ UsesPixmap(icon) =>
                   /\ IsSome(result)
                   /\ result = pixmap_to_handle(Unwrap(icon.pixmap))
                   /\ Unwrap(result).kind = "Raster"
            /\ UsesName(icon) =>
                   LET found == FoundFile(icon)
                   IN  IF found = None THEN result = None
                       ELSE IF Unwrap(found).ext \in {"svg", "SVG"}
                       THEN result = Some(Svg(Unwrap(found)))
                       ELSE IF Unwrap(found).ext \in {"png", "PNG"}
                       THEN IF Unwrap(found) \in DOMAIN fs /\ fs[Unwrap(found)] = "image"
                            THEN IsSome(result) /\ Unwrap(result).kind = "Raster"
                            ELSE result = None
                       ELSE result = None
            /\ (~UsesPixmap(icon) /\ ~UsesName(icon)) => result = None

C16_Witness ==
    /\ IsSome(ret)
    /\ UsesPixmap(Unwrap(arg))
    /\ Unwrap(arg).icon_name = Some("foo")
    /\ theme_hit["foo"] = Some(ThemedFile)
    /\ Unwrap(Unwrap(ret)).kind = "Raster"
    /\ Unwrap(Unwrap(ret)).width = 2

\* the six candidates for name foo under the theme path hint /t, in probe order
SixCandidates ==
    << Path("/t/foo", "svg"),
       Path("/t/foo", "png"),
       Path("/t/hicolor/scalable/apps/foo", "svg"),
       Path("/t/hicolor/256x256/apps/foo", "png"),
       Path("/t/hicolor/128x128/apps/foo", "png"),
       Path("/t/hicolor/64x64/apps/foo", "png") >>

C18_EveryEpisode ==
    \A i \in 0..MaxBurst :
        (/\ state.tag = "Connected"
         /\ IsSome(clicked)
         /\ Unwrap(clicked).sent_in = "Connected"
         /\ Unwrap(clicked).epoch = epoch
         /\ Unwrap(clicked).id = i)
            ~> ((i > 0 /\ serviced >= i) \/ state.tag # "Connected")

\* what the claim says a broadcast event is translated to
Translated(event) ==
    IF event.type = "Add"
    THEN [type |-> "Add", address |-> event.address,
          icon |-> [pixmap |-> event.item.icon.pixmap,
                    icon_name |-> event.item.icon.icon_name,
                    icon_theme_path |-> event.item.icon.icon_theme_path]]
    ELSE IF event.type = "Update" /\ event.update.kind = "Icon"
    THEN [type |-> "Update", address |-> event.address,
          icon |-> [pixmap |-> event.update.icon_pixmap,
                    icon_name |-> event.update.icon_name,
                    icon_theme_path |-> None]]
    ELSE IF event.type = "Remove"
    THEN Remove(event.address)
    ELSE Tick

C20_BroadcastFailure ==
    /\ [](last.input = "BroadcastErr" =>
              /\ last.from = "Connected"
              /\ last.emitted = <<Tick>>
              /\ state = Disconnected
              /\ rx = <<>>
              /\ activate_rx = "none"
              /\ ~stream_done)
    /\ [][(last.input = "BroadcastErr" /\ Len(out') > Len(out)) =>
              /\ last'.input \in {"ConnectOk", "ConnectErr"}
              /\ last'.input = "ConnectOk" =>
                     /\ state'.tag = "SendingInitial"
                     /\ state'.index = 0
                     /\ state'.initial \in Orderings(items)
                     /\ replay' = <<>>]_vars

C20_Witness ==
    /\ last.input = "ConnectOk"
    /\ epoch = "later"
    /\ state.tag = "SendingInitial"
    /\ state.index = 0
    /\ Len(state.initial) = 2

\* the part of a registered entry before its first '/'
DestinationOf(entry) ==
    IF FirstSlash(entry) = 0 THEN entry ELSE SubSeq(entry, 1, FirstSlash(entry) - 1)

\* C22: when the registered list has an entry whose destination is exactly the
\* bus name the request carries (a non-empty name without '/'), the destination
\* and path the remote method is called on are that bus name and the path of
\* such an entry, whatever else is registered and in whatever order.
C22_ReachesClickedItem ==
    (IsSome(ret) /\ IsSome(Unwrap(ret).parsed)) =>
        LET registered == Unwrap(arg).watcher.value
            bus_name == Unwrap(arg).bus_name
            own == {i \in 1..Len(registered) : DestinationOf(registered[i]) = bus_name}
        IN  (own # {} /\ bus_name # <<>> /\ ~HasSlash(bus_name)) =>
                /\ Unwrap(Unwrap(ret).parsed)[1] = bus_name
                /\ \E i \in own :
                       Unwrap(Unwrap(ret).parsed)[2] =
                           (IF FirstSlash(registered[i]) = 0 THEN StatusNotifierItem
                            ELSE SubSeq(registered[i], FirstSlash(registered[i]), Len(registered[i])))

\* rx as the broadcast channel leaves it when nothing is received
Extends(longer, shorter) ==
    /\ Len(longer) >= Len(shorter)
    /\ SubSeq(longer, 1, Len(shorter)) = shorter

\* C21: between the dequeue of a request and the end of its remote calls the
\* engine emits nothing and receives no broadcast event; the step that ends it,
\* whatever the calls returned, emits one Tick and leaves the engine Connected
\* with the receivers it had and the rest of the channel; neither that step nor
\* the delivery of a Tick changes the catalog.
C21_Serialization ==
    [][/\ (inflight = None /\ IsSome(inflight')) =>
              /\ chan' = Tail(chan)
              /\ out' = out /\ rx' = rx /\ state' = state
       /\ (IsSome(inflight) /\ IsSome(inflight')) =>
              /\ Len(out') <= Len(out)
              /\ Extends(rx', rx)
              /\ state' = Connected /\ ~stream_done'
              /\ activate_rx' = activate_rx
       /\ (IsSome(inflight) /\ inflight' = None) =>
              /\ out' = Append(out, Tick)
              /\ state' = Connected /\ ~stream_done'
              /\ rx' = rx /\ activate_rx' = activate_rx /\ chan' = chan
              /\ tray_items' = tray_items
       /\ (out # <<>> /\ Head(out) = Tick /\ out' = Tail(out)) =>
              tray_items' = tray_items
      ]_vars

\* an activation of two failed calls has ended while a broadcast event waits
C21_Witness ==
    /\ last.input = "Activation"
    /\ Len(last.attempts) = 2
    /\ inflight = None
    /\ rx # <<>>
    /\ out = <<Tick>>

\* update() left everything as it was and returned Task::none()
NoChange(r) ==
    /\ r.tray_items = tray_items
    /\ r.ui = ui
    /\ r.chan = chan
    /\ r.task = <<>>

\* C23: a right click sends nothing into the channel (it returns the popup's
\* OpenPopup, or changes nothing while main_bar_id is None); a left or middle
\* click on an icon the bar draws appends one request with the clicked address,
\* the click kind and the mouse position whenever ACTIVATE_TX is set, and
\* changes nothing when it is not set.
C23_ClickRouting ==
    \A a \in Addr, ct \in {"Left", "Middle", "Right"} :
        LET r == update(MsgClicked(a, ct))
        IN  IF ct = "Right"
            THEN /\ r.chan = chan
                 /\ r.tray_items = tray_items
                 /\ ui.main_bar_id = None => NoChange(r)
                 /\ IsSome(ui.main_bar_id) =>
                        /\ r.task # <<>>
                        /\ r.task[Len(r.task)].kind = "OpenPopup"
            ELSE IF a \notin Rendered
            THEN TRUE
            ELSE IF ACTIVATE_TX
            THEN /\ Len(r.chan) = Len(chan) + 1
                 /\ SubSeq(r.chan, 1, Len(chan)) = chan
                 /\ r.chan[Len(r.chan)].address = a
                 /\ r.chan[Len(r.chan)].click_type = ct
                 /\ r.chan[Len(r.chan)].x = AsWhole(ui.mouse_position[1])
                 /\ r.chan[Len(r.chan)].y = AsWhole(ui.mouse_position[2])
                 /\ r.tray_items = tray_items /\ r.ui = ui /\ r.task = <<>>
            ELSE NoChange(r)

\* C24: active_popup is set exactly when popup_for_address is; a right click
\* while a popup is open returns CloseWindow for that popup followed by
\* OpenPopup for a new one; ClosePopup without a popup, and a right click while
\* main_bar_id is None, change nothing.
C24_SinglePopup ==
    /\ IsSome(ui.active_popup) <=> IsSome(ui.popup_for_address)
    /\ \A a \in Addr :
          LET r == update(MsgClicked(a, "Right"))
          IN  /\ ui.main_bar_id = None => NoChange(r)
              /\ (IsSome(ui.main_bar_id) /\ IsSome(ui.active_popup)) =>
                     /\ Len(r.task) = 2
                     /\ r.task[1] = MsgCloseWindow(Unwrap(ui.active_popup))
                     /\ r.task[2].kind = "OpenPopup"
                     /\ r.task[2].popup = Unwrap(r.ui.active_popup)
                     /\ r.task[2].popup # Unwrap(ui.active_popup)
                     /\ r.ui.popup_for_address = Some(a)
    /\ ui.active_popup = None => NoChange(update(MsgClosePopup))

\* a second popup has replaced or followed the first, and is open
C24_Witness ==
    /\ IsSome(ui.main_bar_id)
    /\ ui.active_popup = Some(BarWindow + 2)
    /\ ui.popup_for_address = Some("b")

\* the catalog entry of an address: None when there is none
Entry(ti, b) == IF b \in DOMAIN ti THEN Some(ti[b]) ELSE None

\* C25: update() changes the entry of an address b only on a tray Add, Update
\* or Remove for b or a hover message for b; a hover message keeps the set of
\* entries and every icon; every other message, and every message for another
\* address, leaves b's entry as it was.
C25_CatalogFrame ==
    \A msg \in Messages :
        LET after == update(msg).tray_items
        IN  /\ \A b \in Addr :
                  Entry(after, b) # Entry(tray_items, b) =>
                      \/ /\ msg.kind = "Tray"
                         /\ msg.event.type \in {"Add", "Update", "Remove"}
                         /\ msg.event.address = b
                      \/ /\ msg.kind = "TrayIconHover"
                         /\ msg.address = b
            /\ msg.kind = "TrayIconHover" =>
                  /\ DOMAIN after = DOMAIN tray_items
                  /\ \A c \in DOMAIN after : after[c].icon = tray_items[c].icon

\* one entry is hovered, another is not, an address has no entry and a popup
\* is open
C25_Witness ==
    /\ \E b \in DOMAIN tray_items : tray_items[b].hovered
    /\ \E c \in DOMAIN tray_items : ~tray_items[c].hovered
    /\ IsSome(ui.active_popup)
    /\ ui.mouse_position # <<0, 0>>

====
